---- MODULE Spec2Model ----
(***************************************************************************)
(* Timeline store and render pipeline of the Streamlit video editor        *)
(* (src/app.py).                                                           *)
(*                                                                         *)
(* The program is a Streamlit script: every user interaction (a button, a  *)
(* changed number input, a changed upload list) runs the whole script from *)
(* top to bottom against the session state.  One action of the model is    *)
(* one interaction together with the complete script run it causes.        *)
(*                                                                         *)
(* The only long-running part of the script is the render block (lines     *)
(* 209-243).  It obtains the list object st.session_state.timeline once    *)
(* (line 211) and then runs without calling Streamlit until st.success     *)
(* (line 237) or st.error (line 243).  A new interaction during that time  *)
(* starts the next script run while the earlier one is still inside the    *)
(* render block; the earlier run is stopped only when it next calls        *)
(* Streamlit.  The render block is therefore modelled step by step, and    *)
(* interleaved with the script runs of later interactions.                 *)
(*                                                                         *)
(* Times are integers counted in half seconds (the finest step the code    *)
(* names is min_value=0.5, line 182).                                      *)
(***************************************************************************)
EXTENDS Integers, Sequences, FiniteSets, TLC

(***************************************************************************)
(* Bounds of the model.                                                    *)
(***************************************************************************)
MaxCounter == 2
MaxRenders == 2
MaxUpload == 1

(***************************************************************************)
(* Program constants (half seconds, frames per second).                    *)
(***************************************************************************)
DefaultDuration == 6
MinDuration == 1
DefaultFps == 24
MinFps == 15

(***************************************************************************)
(* Input domains the interactions draw from.                               *)
(***************************************************************************)
StartValues == {0, 3}
EndValues == {0, 2}
DurationValues == {MinDuration, DefaultDuration}
FpsValues == {MinFps, DefaultFps}
NaturalDurations == {4}
Kinds == {"image", "video"}

\* Python's None, and a present value, of the optional "end" field.
None == << >>
Some(v) == << v >>

VARIABLES timeline, counter, uploaded, renders, outFile

vars == << timeline, counter, uploaded, renders, outFile >>

(***************************************************************************)
(* Files.  A path stands for the temporary file behind it; what the model  *)
(* keeps of the file is its natural duration (0 for a still image).        *)
(***************************************************************************)
ImagePath == [nat |-> 0]
VideoPath(n) == [nat |-> n]
NaturalDuration(path) == path.nat

UploadedFiles == {[type |-> "image", path |-> ImagePath]}
                   \cup {[type |-> "video", path |-> VideoPath(n)] : n \in NaturalDurations}

RECURSIVE SeqsUpTo(_, _)
SeqsUpTo(S, n) ==
    IF n = 0 THEN {<< >>}
    ELSE LET shorter == SeqsUpTo(S, n - 1)
         IN shorter \cup {Append(s, x) : s \in {t \in shorter : Len(t) = n - 1}, x \in S}

(***************************************************************************)
(* Session state: lines 88-92.                                             *)
(***************************************************************************)
NewImage(c, path) ==
    [id |-> c, type |-> "image", path |-> path, duration |-> DefaultDuration]

NewVideo(c, path) ==
    [id |-> c, type |-> "video", path |-> path, start |-> 0, end |-> None]

\* A variant of AddItem that leaves the counter where it was.
AddItemSameCounter(st, type, path) ==
    [timeline |-> Append(st.timeline,
                         IF type = "image" THEN NewImage(st.counter, path)
                                           ELSE NewVideo(st.counter, path)),
     counter |-> st.counter]

\* timeline.append({... "id": counter ...}); counter += 1
AddItem(st, type, path) ==
    [timeline |-> Append(st.timeline,
                         IF type = "image" THEN NewImage(st.counter, path)
                                           ELSE NewVideo(st.counter, path)),
     counter |-> st.counter + 1]

(***************************************************************************)
(* An interaction, as the script sees it: which button returns True or     *)
(* which widget carries a new value in this run.                           *)
(***************************************************************************)
Event(op, id, v) == [op |-> op, id |-> id, v |-> v]
NoEvent == Event("none", 0, 0)

(***************************************************************************)
(* Lines 114-143: the "Add image i" / "Add video i" buttons of the search  *)
(* results.  ev.type is the kind of the result whose button was pressed    *)
(* and ev.v the natural duration of the file the download yields; v = 0    *)
(* stands for a download that raises, which ends the script run before     *)
(* anything is appended.                                                   *)
(***************************************************************************)
SearchSection(st, ev) ==
    IF ev.op # "add"
    THEN [timeline |-> st.timeline, counter |-> st.counter, error |-> FALSE]
    ELSE IF ev.v = 0
         THEN [timeline |-> st.timeline, counter |-> st.counter, error |-> TRUE]
         ELSE LET a == IF ev.id = 0
                       THEN AddItem(st, "image", ImagePath)
                       ELSE AddItem(st, "video", VideoPath(ev.v))
              IN [timeline |-> a.timeline, counter |-> a.counter, error |-> FALSE]

(***************************************************************************)
(* Lines 147-160: the upload section.  The uploader widget keeps its files *)
(* from one script run to the next, and every run appends one entry per    *)
(* file it holds.                                                          *)
(***************************************************************************)
RECURSIVE UploadSection(_, _)
UploadSection(st, files) ==
    IF files = << >> THEN st
    ELSE UploadSection(AddItem(st, Head(files).type, Head(files).path), Tail(files))

(***************************************************************************)
(* Lines 168-192: one pass of the timeline loop.                           *)
(***************************************************************************)
Swap(tl, i, j) == [tl EXCEPT ![i] = tl[j], ![j] = tl[i]]

Pop(tl, k) == SubSeq(tl, 1, k - 1) \o SubSeq(tl, k + 1, Len(tl))

SeqRange(s) == {s[i] : i \in 1 .. Len(s)}

\* lines 175-178 and 182-183: the fields are written from the widgets.
WriteVideo(item, ev) ==
    LET start == IF ev.op = "start" /\ ev.id = item.id THEN ev.v ELSE item.start
        end == IF ev.op = "end" /\ ev.id = item.id THEN ev.v
               ELSE IF item.end # None THEN item.end[1] ELSE 0
    IN [item EXCEPT !.start = start,
                    !.end = IF end > 0 THEN Some(end) ELSE None]

WriteImage(item, ev) ==
    LET duration == IF ev.op = "duration" /\ ev.id = item.id THEN ev.v
                    ELSE item.duration
    IN [item EXCEPT !.duration = duration]

WriteFields(item, ev) ==
    IF item.type = "video" THEN WriteVideo(item, ev) ELSE WriteImage(item, ev)

\* lines 188-191: the reorder buttons of the item at (1-based) position k.
MoveUpAt(tl, k, item, ev) ==
    IF ev.op = "moveup" /\ ev.id = item.id /\ k > 1
    THEN Swap(tl, k - 1, k) ELSE tl

MoveDownAt(tl, k, item, ev) ==
    IF ev.op = "movedown" /\ ev.id = item.id /\ k < Len(tl)
    THEN Swap(tl, k + 1, k) ELSE tl

\* enumerate() walks the live list by index.  An entry met a second time
\* in one pass asks for widgets whose keys exist already; Streamlit raises
\* DuplicateWidgetID at the first of them and the script run ends there.
RECURSIVE TimelineLoop(_, _, _, _, _)
TimelineLoop(tl, k, ev, visits, to_remove) ==
    IF k > Len(tl)
    THEN [timeline |-> tl, to_remove |-> to_remove, visits |-> visits,
          error |-> FALSE]
    ELSE IF tl[k].id \in SeqRange(visits)
         THEN [timeline |-> tl, to_remove |-> to_remove,
               visits |-> Append(visits, tl[k].id), error |-> TRUE]
         ELSE LET item == WriteFields(tl[k], ev)
                  tl1 == [tl EXCEPT ![k] = item]
                  rm == IF ev.op = "remove" /\ ev.id = item.id THEN k
                        ELSE to_remove
                  tl2 == MoveUpAt(tl1, k, item, ev)
                  tl3 == MoveDownAt(tl2, k, item, ev)
              IN TimelineLoop(tl3, k + 1, ev, Append(visits, item.id), rm)

(***************************************************************************)
(* One run of the script up to the sidebar (lines 88-203).  "error" tells   *)
(* whether the run ended in an uncaught exception, "reached" whether it    *)
(* arrived at the render button of line 204.                               *)
(* Lines 193-195: a pending removal pops the entry and reruns the script   *)
(* at once, with no button pressed.                                        *)
(***************************************************************************)
RECURSIVE Script(_, _, _)
Script(st, ev, files) ==
    LET s1 == SearchSection(st, ev)
    IN IF s1.error
       THEN [timeline |-> st.timeline, counter |-> st.counter,
             error |-> TRUE, reached |-> FALSE]
       ELSE LET s2 == UploadSection([timeline |-> s1.timeline,
                                     counter |-> s1.counter], files)
                s3 == TimelineLoop(s2.timeline, 1, ev, << >>, 0)
            IN IF s3.error
               THEN [timeline |-> s3.timeline, counter |-> s2.counter,
                     error |-> TRUE, reached |-> FALSE]
               ELSE IF s3.to_remove # 0
                    THEN Script([timeline |-> Pop(s3.timeline, s3.to_remove),
                                 counter |-> s2.counter],
                                NoEvent, files)
                    ELSE [timeline |-> s3.timeline, counter |-> s2.counter,
                          error |-> FALSE, reached |-> TRUE]

Session == [timeline |-> timeline, counter |-> counter]

Ids(tl) == {tl[i].id : i \in 1 .. Len(tl)}

(***************************************************************************)
(* Render block, lines 204-243.                                            *)
(*                                                                         *)
(* moviepy's subclip(t_start, t_end) raises when t_start lies beyond the   *)
(* clip's duration and otherwise yields a clip of duration                 *)
(* t_end - t_start, t_end defaulting to the clip's duration.               *)
(***************************************************************************)
\* A variant of Subclip whose duration does not take t_start off.
SubclipFromZero(nat, s, e) ==
    [ok |-> s <= nat,
     dur |-> IF e = None THEN nat ELSE e[1]]

Subclip(nat, s, e) ==
    [ok |-> s <= nat,
     dur |-> (IF e = None THEN nat ELSE e[1]) - s]

\* lines 213-220
VideoClip(item) ==
    LET s == item.start
        e == item.end
        nat == NaturalDuration(item.path)
    IN IF e # None /\ e[1] # 0
       THEN Subclip(nat, s, e)
       ELSE IF s > 0 THEN Subclip(nat, s, None)
            ELSE [ok |-> TRUE, dur |-> nat]

\* lines 227-228
ImageClipOf(item) == [ok |-> TRUE, dur |-> item.duration]

ClipOf(item) == IF item.type = "video" THEN VideoClip(item) ELSE ImageClipOf(item)

\* A clip of the list "clips": the item it was made from and its duration.
Clip(item, dur) == [id |-> item.id, dur |-> dur]

\* concatenate_videoclips(clips, method="compose"): the clips end to end.
RECURSIVE ConcatDuration(_)
ConcatDuration(clips) ==
    IF clips = << >> THEN 0
    ELSE Head(clips).dur + ConcatDuration(Tail(clips))

\* write_videofile at f frames per second writes one frame for every
\* t = 0, 1/f, 2/f, ... below the duration d (d in half seconds).
Frames(d, f) ==
    IF d <= 0 THEN 0 ELSE (d * f + 1) \div 2

\* The file at out_path (line 234): "absent", "partial" or "complete".
NoFile == [state |-> "absent"]

(***************************************************************************)
(* The runs of the script that are, or were last, in the render block.     *)
(* pc: "composing" (the loop of line 211), "encoding" (line 236),          *)
(* "written" (write_videofile has returned), "reported" (line 237 done);   *)
(* "done", "failed", "rejected" and "stopped" are a run that has ended.    *)
(* What a run has put on the page stays until the next run redraws it.     *)
(***************************************************************************)
Idle ==
    [pc |-> "idle", idx |-> 0, clips |-> << >>, fps |-> 0,
     live |-> FALSE, final |-> 0, frames |-> 0, msgs |-> {}]

Ended == {"done", "failed", "rejected", "stopped"}
Active == {"composing", "encoding", "written", "reported"}

\* lines 208-211: the run enters the render block.
NewRender ==
    [Idle EXCEPT !.pc = "composing", !.live = TRUE]

\* line 205-206: st.sidebar.warning("Timeline is empty")
RejectedRender ==
    [Idle EXCEPT !.pc = "rejected", !.msgs = {"Timeline is empty"}]

\* The run is over: its locals (clips, final) are gone.
End(r, pc) ==
    [Idle EXCEPT !.pc = pc, !.msgs = r.msgs]

\* A later script run of the session redraws the page, and the runs still
\* inside the render block are stopped at their next call of Streamlit.
\* Such a run goes on composing and encoding, but nothing of its result is
\* ever reported: the model keeps which items its clips came from and
\* forgets their durations.
Forget(clips) == [k \in 1 .. Len(clips) |-> Clip(clips[k], 0)]

Supersede(rs) ==
    [i \in DOMAIN rs |->
        IF rs[i].pc \in Active
        THEN [rs[i] EXCEPT !.live = FALSE, !.clips = Forget(rs[i].clips),
                           !.final = 0, !.frames = 0, !.fps = 0]
        ELSE Idle]

\* except Exception as e: st.error(f"Rendering failed: {e}")  (lines 242-243)
Failure(r) ==
    IF r.live
    THEN End([r EXCEPT !.msgs = r.msgs \cup {"Rendering failed"}], "failed")
    ELSE End(r, "stopped")

FreeSlots(rs) == {i \in DOMAIN rs : rs[i].pc = "idle"}

Min(S) == CHOOSE x \in S : \A y \in S : x <= y

(***************************************************************************)
(* Initial state: lines 88-92 and the widgets' defaults.                   *)
(***************************************************************************)
Init ==
    /\ timeline = << >>
    /\ counter = 0
    /\ uploaded = << >>
    /\ renders = [i \in 1 .. MaxRenders |-> Idle]
    /\ outFile = NoFile

(***************************************************************************)
(* Interactions.  Each runs the script once.                               *)
(***************************************************************************)
Interact(ev, files) ==
    LET r == Script(Session, ev, files)
    IN /\ r.counter <= MaxCounter
       /\ timeline' = r.timeline
       /\ counter' = r.counter
       /\ uploaded' = files
       /\ renders' = Supersede(renders)
       /\ UNCHANGED outFile

\* An interaction that presses none of the buttons below and changes none
\* of the inputs below: the search box, the Search button, the radio
\* button, the sliders, the Preview buttons, the output name.
Rerun == Interact(NoEvent, uploaded)

\* lines 121-128 (type "image") and 135-143 (type "video")
AddFromSearch(type, n) ==
    Interact(Event("add", IF type = "image" THEN 0 ELSE 1, n), uploaded)

\* line 147: the user changes the files held by the uploader
SetUpload(files) ==
    /\ files # uploaded
    /\ Interact(NoEvent, files)

HasItem(id, type) ==
    \E i \in 1 .. Len(timeline) : timeline[i].id = id /\ timeline[i].type = type

ItemOf(id) == timeline[CHOOSE i \in 1 .. Len(timeline) : timeline[i].id = id]

\* lines 175-178: the Start and End inputs of a video
EditStart(id, v) ==
    /\ HasItem(id, "video")
    /\ ItemOf(id).start # v
    /\ Interact(Event("start", id, v), uploaded)

EditEnd(id, v) ==
    /\ HasItem(id, "video")
    /\ ItemOf(id).end # (IF v > 0 THEN Some(v) ELSE None)
    /\ Interact(Event("end", id, v), uploaded)

\* lines 182-183: the Duration input of an image
EditDuration(id, v) ==
    /\ HasItem(id, "image")
    /\ ItemOf(id).duration # v
    /\ Interact(Event("duration", id, v), uploaded)

\* lines 184-185, 193-195
Remove(id) ==
    /\ id \in Ids(timeline)
    /\ Interact(Event("remove", id, 0), uploaded)

\* lines 188-189
MoveUp(id) ==
    /\ id \in Ids(timeline)
    /\ Interact(Event("moveup", id, 0), uploaded)

\* lines 190-191
MoveDown(id) ==
    /\ id \in Ids(timeline)
    /\ Interact(Event("movedown", id, 0), uploaded)

\* A variant of StartRender without the test of line 205.
StartRenderUnchecked(rs, tl) ==
    [rs EXCEPT ![Min(FreeSlots(rs))] = NewRender]

\* lines 204-209: the Render & Export button
StartRender(rs, tl) ==
    [rs EXCEPT ![Min(FreeSlots(rs))] =
        IF tl = << >> THEN RejectedRender ELSE NewRender]

ClickRender ==
    /\ FreeSlots(Supersede(renders)) # {}
    /\ LET r == Script(Session, NoEvent, uploaded)
       IN /\ r.counter <= MaxCounter
          /\ timeline' = r.timeline
          /\ counter' = r.counter
          /\ renders' = IF r.reached
                        THEN StartRender(Supersede(renders), r.timeline)
                        ELSE Supersede(renders)
          /\ UNCHANGED << uploaded, outFile >>

(***************************************************************************)
(* Steps of a run that is inside the render block.                         *)
(***************************************************************************)
SetRender(i, r) == renders' = [renders EXCEPT ![i] = r]

\* lines 211-230: the next item of the live list is opened and trimmed.
\* opened = FALSE: VideoFileClip / Image.open raises.
ComposeItem(i, opened) ==
    /\ renders[i].pc = "composing"
    /\ renders[i].idx < Len(timeline)
    /\ LET r == renders[i]
           item == timeline[r.idx + 1]
           c == ClipOf(item)
       IN SetRender(i,
            IF ~opened THEN Failure(r)
            ELSE IF ~c.ok THEN Failure(r)
            ELSE [r EXCEPT !.idx = r.idx + 1,
                           !.clips = Append(r.clips,
                                Clip(item, IF r.live THEN c.dur ELSE 0))])
    /\ UNCHANGED << timeline, counter, uploaded, outFile >>

\* lines 232-234: the list is exhausted; concatenate_videoclips, set_fps.
\* An empty list of clips makes concatenate_videoclips raise.
Concatenate(i, ok) ==
    /\ renders[i].pc = "composing"
    /\ renders[i].idx >= Len(timeline)
    /\ LET r == renders[i]
       IN SetRender(i,
            IF ~ok \/ r.clips = << >> THEN Failure(r)
            ELSE [r EXCEPT !.pc = "encoding",
                           !.final = IF r.live THEN ConcatDuration(r.clips)
                                              ELSE 0])
    /\ UNCHANGED << timeline, counter, uploaded, outFile >>

\* A variant of Encode in which a failed write is taken for a finished one.
EncodeIgnoringFailure(i, f, ok) ==
    /\ renders[i].pc = "encoding"
    /\ LET r == renders[i]
       IN /\ SetRender(i, IF r.live
                           THEN [r EXCEPT !.pc = "written", !.fps = f,
                                          !.frames = Frames(r.final, f)]
                           ELSE [r EXCEPT !.pc = "written", !.idx = 0,
                                          !.clips = << >>])
          /\ outFile' = [state |-> IF ok THEN "complete" ELSE "partial"]
    /\ UNCHANGED << timeline, counter, uploaded >>

\* lines 233, 236: set_fps(fps) and write_videofile; f is the value the
\* Export FPS input (line 198) had in this run.  On success the file is
\* written and closed; on failure what was written so far stays at out_path.
Encode(i, f, ok) ==
    /\ renders[i].pc = "encoding"
    /\ LET r == renders[i]
       IN IF ok
          THEN /\ SetRender(i, IF r.live
                                THEN [r EXCEPT !.pc = "written", !.fps = f,
                                               !.frames = Frames(r.final, f)]
                                ELSE [r EXCEPT !.pc = "written", !.idx = 0,
                                               !.clips = << >>])
               /\ outFile' = [state |-> "complete"]
          ELSE /\ SetRender(i, Failure(r))
               /\ outFile' = [state |-> "partial"]
    /\ UNCHANGED << timeline, counter, uploaded >>

\* line 237: st.success("Export complete")
ReportSuccess(i) ==
    /\ renders[i].pc = "written"
    /\ LET r == renders[i]
       IN SetRender(i,
            IF r.live
            THEN [r EXCEPT !.pc = "reported",
                           !.msgs = r.msgs \cup {"Export complete"}]
            ELSE End(r, "stopped"))
    /\ UNCHANGED << timeline, counter, uploaded, outFile >>

\* lines 238-241: st.video, open(out_path), st.download_button
Present(i, ok) ==
    /\ renders[i].pc = "reported"
    /\ LET r == renders[i]
       IN SetRender(i,
            IF ~r.live THEN End(r, "stopped")
            ELSE IF ok THEN End(r, "done")
            ELSE Failure(r))
    /\ UNCHANGED << timeline, counter, uploaded, outFile >>

Next ==
    \/ \E type \in Kinds, n \in NaturalDurations \cup {0} : AddFromSearch(type, n)
    \/ \E files \in SeqsUpTo(UploadedFiles, MaxUpload) : SetUpload(files)
    \/ \E id \in 0 .. MaxCounter, v \in StartValues : EditStart(id, v)
    \/ \E id \in 0 .. MaxCounter, v \in EndValues : EditEnd(id, v)
    \/ \E id \in 0 .. MaxCounter, v \in DurationValues : EditDuration(id, v)
    \/ \E id \in 0 .. MaxCounter : Remove(id)
    \/ \E id \in 0 .. MaxCounter : MoveUp(id)
    \/ \E id \in 0 .. MaxCounter : MoveDown(id)
    \/ Rerun
    \/ ClickRender
    \/ \E i \in 1 .. MaxRenders, opened \in BOOLEAN : ComposeItem(i, opened)
    \/ \E i \in 1 .. MaxRenders, ok \in BOOLEAN : Concatenate(i, ok)
    \/ \E i \in 1 .. MaxRenders, f \in FpsValues, ok \in BOOLEAN : Encode(i, f, ok)
    \/ \E i \in 1 .. MaxRenders : ReportSuccess(i)
    \/ \E i \in 1 .. MaxRenders, ok \in BOOLEAN : Present(i, ok)

Spec == Init /\ [][Next]_vars

(***************************************************************************)
(* Notions of the specification used to state the properties.              *)
(***************************************************************************)
\* The resolved duration of an entry (spec 4.2, rules 1 and 2).
ResolvedDuration(item) ==
    IF item.type = "image" THEN item.duration
    ELSE IF item.end # None THEN item.end[1] - item.start
         ELSE NaturalDuration(item.path) - item.start

\* The invariants of an entry (spec 3).
ValidItem(item) ==
    IF item.type = "image" THEN item.duration > 0
    ELSE /\ item.start >= 0
         /\ item.end # None => item.end[1] > item.start
         /\ ResolvedDuration(item) > 0

AllValid(tl) == \A k \in 1 .. Len(tl) : ValidItem(tl[k])

RECURSIVE TotalResolved(_)
TotalResolved(tl) ==
    IF tl = << >> THEN 0
    ELSE ResolvedDuration(Head(tl)) + TotalResolved(Tail(tl))

\* n frames at f frames per second last d half seconds, to within one frame.
WithinOneFrame(n, f, d) == 2 * n - d * f < 2 /\ d * f - 2 * n < 2

IdsDistinct(tl) == Cardinality(Ids(tl)) = Len(tl)

ItemById(tl, id) == tl[CHOOSE k \in 1 .. Len(tl) : tl[k].id = id]

Slots == DOMAIN renders

\* The ids of the items of the clips a run has composed, followed by the
\* ids of the entries its loop has still to read.
ComposedIds(i) == [k \in 1 .. Len(renders[i].clips) |-> renders[i].clips[k].id]

PendingIds(i) ==
    [k \in 1 .. (Len(timeline) - renders[i].idx) |-> timeline[renders[i].idx + k].id]

PlannedIds(i) == ComposedIds(i) \o PendingIds(i)

\* The segments a run has still to compose, with their parameters.
PendingSegments(i) ==
    [k \in 1 .. (Len(timeline) - renders[i].idx) |->
        LET item == timeline[renders[i].idx + k]
        IN [id |-> item.id,
            start |-> IF item.type = "video" THEN item.start ELSE 0,
            dur |-> ResolvedDuration(item)]]

(***************************************************************************)
(* C1.  When a render of a non-empty timeline of valid items reports       *)
(* success, the output it has written lasts the sum of the items' resolved *)
(* durations (display duration of an image, trimEnd - trimStart, or        *)
(* natural duration - trimStart of a video), to within one frame.          *)
(***************************************************************************)
C1_OutputDurationIsSum ==
    \A i \in Slots :
        (/\ renders[i].pc = "reported"
         /\ renders[i].live
         /\ timeline # << >>
         /\ AllValid(timeline))
        => WithinOneFrame(renders[i].frames, renders[i].fps,
                          TotalResolved(timeline))

C1_Witness ==
    \E i \in Slots :
        /\ renders[i].pc = "reported"
        /\ renders[i].live
        /\ renders[i].fps = MinFps
        /\ Len(timeline) = 2
        /\ AllValid(timeline)
        /\ \E k \in 1 .. 2 : timeline[k].type = "video" /\ timeline[k].end # None
        /\ \E k \in 1 .. 2 : timeline[k].type = "video" /\ timeline[k].start > 0

(***************************************************************************)
(* C2.  A render emits one segment per timeline item, in the order of the  *)
(* timeline as it stood at render start: at every step of a render, the    *)
(* items of the segments composed so far followed by the items still to be *)
(* read are the same sequence as before the step, so none is dropped,      *)
(* duplicated or reordered.                                                *)
(***************************************************************************)
C2_OneSegmentPerItemInOrder ==
    [][\A i \in Slots :
          (renders[i].pc = "composing" /\ renders'[i].pc \in {"composing", "encoding"})
          => PlannedIds(i)' = PlannedIds(i)]_vars

(***************************************************************************)
(* C3.  No two entries have the same id; an entry that stays in the        *)
(* timeline keeps its id together with its kind and source; and an id      *)
(* given to a new entry is one the counter has not passed yet, the counter *)
(* never going back, so that no id is assigned twice, also after removal.  *)
(***************************************************************************)
C3_IdsUniqueStableFresh ==
    [][/\ IdsDistinct(timeline')
       /\ counter' >= counter
       /\ \A id \in Ids(timeline') \ Ids(timeline) : counter <= id /\ id < counter'
       /\ \A id \in Ids(timeline') \cap Ids(timeline) :
             /\ ItemById(timeline', id).type = ItemById(timeline, id).type
             /\ ItemById(timeline', id).path = ItemById(timeline, id).path]_vars

C3_Witness ==
    /\ timeline # << >>
    /\ Len(timeline) < counter
    /\ \E k \in 1 .. Len(timeline) : timeline[k].id = counter - 1

(***************************************************************************)
(* C4.  An edit of a video's start or end that would leave                 *)
(* trimEnd <= trimStart is rejected and leaves the store unchanged.        *)
(***************************************************************************)
C4_InvalidUpdateRejected ==
    [][\A id \in Ids(timeline) :
          (\/ \E v \in EndValues :
                 EditEnd(id, v) /\ v > 0 /\ v <= ItemOf(id).start
           \/ \E v \in StartValues :
                 EditStart(id, v) /\ ItemOf(id).end # None /\ ItemOf(id).end[1] <= v)
          => UNCHANGED << timeline, counter >>]_vars

(***************************************************************************)
(* C5.  Every stored video whose trimEnd is present has                    *)
(* trimEnd > trimStart.                                                    *)
(***************************************************************************)
C5_TrimEndAfterStart ==
    \A k \in 1 .. Len(timeline) :
        (timeline[k].type = "video" /\ timeline[k].end # None)
        => timeline[k].end[1] > timeline[k].start

(***************************************************************************)
(* C6.  A render that ends while composing or encoding has not reported    *)
(* "Export complete"; "Export complete" is reported only by a run whose    *)
(* write_videofile has returned; and write_videofile returns only with     *)
(* the file written completely.                                            *)
(***************************************************************************)
C6_SuccessOnlyAfterWrite ==
    [][\A i \in Slots :
          /\ (/\ renders[i].pc \in {"composing", "encoding"}
              /\ renders'[i].pc \notin {"composing", "encoding", "written"})
             => "Export complete" \notin renders'[i].msgs
          /\ (/\ "Export complete" \in renders'[i].msgs
              /\ "Export complete" \notin renders[i].msgs)
             => renders[i].pc = "written"
          /\ (renders'[i].pc = "written" /\ renders[i].pc # "written")
             => (renders[i].pc = "encoding" /\ outFile'.state = "complete")]_vars

C6_Witness ==
    \E i \in Slots :
        /\ renders[i].pc = "failed"
        /\ renders[i].msgs = {"Rendering failed"}
        /\ outFile.state = "partial"

(***************************************************************************)
(* C7.  A click on Render & Export while the timeline is empty leaves the  *)
(* output file as it was, starts no composing or encoding, and shows       *)
(* "Timeline is empty".                                                    *)
(***************************************************************************)
C7_EmptyTimelineRejected ==
    [][(ClickRender /\ timeline = << >>)
       => /\ outFile' = outFile
          /\ timeline' = << >>
          /\ \E i \in FreeSlots(Supersede(renders)) :
                renders' = [Supersede(renders) EXCEPT ![i] = RejectedRender]]_vars

C7_Witness ==
    \E i \in Slots :
        /\ renders[i].pc = "rejected"
        /\ renders[i].msgs = {"Timeline is empty"}
        /\ renders[i].clips = << >>
        /\ timeline = << >>

(***************************************************************************)
(* C8.  A render works on the timeline as it stood at render start: a      *)
(* step that changes the timeline while a run is composing leaves the      *)
(* segments that run has still to compose, and their parameters, as they   *)
(* were.                                                                   *)
(***************************************************************************)
C8_RenderUsesSnapshot ==
    [][\A i \in Slots :
          (/\ renders[i].pc = "composing"
           /\ renders'[i].pc = "composing"
           /\ timeline' # timeline)
          => PendingSegments(i)' = PendingSegments(i)]_vars

(***************************************************************************)
(* C9.  At most one run of the session is composing or encoding at any     *)
(* time.                                                                   *)
(***************************************************************************)
C9_SingleActiveRender ==
    Cardinality({i \in Slots : renders[i].pc \in {"composing", "encoding"}}) <= 1

(***************************************************************************)
(* C10.  Move Up on the first entry and Move Down on the last entry leave  *)
(* the timeline and the counter as they were, and the script run ends      *)
(* without an exception.                                                   *)
(***************************************************************************)
C10_MoveAtBoundaryNoOp ==
    [][\A id \in Ids(timeline) :
          /\ (MoveUp(id) /\ timeline[1].id = id)
             => /\ UNCHANGED << timeline, counter >>
                /\ ~Script(Session, Event("moveup", id, 0), uploaded).error
          /\ (MoveDown(id) /\ timeline[Len(timeline)].id = id)
             => /\ UNCHANGED << timeline, counter >>
                /\ ~Script(Session, Event("movedown", id, 0), uploaded).error]_vars

(***************************************************************************)
(* The script run a click or an edit causes in the current state, and the  *)
(* segments a render of a timeline composes (lines 211-230).               *)
(***************************************************************************)
RunOf(ev) == Script(Session, ev, uploaded)

Segments(tl) == [k \in 1 .. Len(tl) |-> Clip(tl[k], ClipOf(tl[k]).dur)]

Without(tl, id) == SelectSeq(tl, LAMBDA item : item.id # id)

(***************************************************************************)
(* C11.  Move Up on an entry that is not the first (Move Down on one that  *)
(* is not the last) exchanges it with its predecessor (successor) and      *)
(* changes nothing else: the timeline after the click is the one before    *)
(* with the two entries exchanged, and a render of it composes the same    *)
(* segments with those two exchanged, of the same total duration.          *)
(***************************************************************************)
C11_MoveSwapsAdjacent ==
    \A k \in 1 .. Len(timeline) :
        /\ k > 1 =>
             LET r == RunOf(Event("moveup", timeline[k].id, 0))
             IN /\ r.timeline = Swap(timeline, k - 1, k)
                /\ Segments(r.timeline) = Swap(Segments(timeline), k - 1, k)
                /\ ConcatDuration(Segments(r.timeline))
                     = ConcatDuration(Segments(timeline))
        /\ k < Len(timeline) =>
             LET r == RunOf(Event("movedown", timeline[k].id, 0))
             IN /\ r.timeline = Swap(timeline, k, k + 1)
                /\ Segments(r.timeline) = Swap(Segments(timeline), k, k + 1)
                /\ ConcatDuration(Segments(r.timeline))
                     = ConcatDuration(Segments(timeline))

(***************************************************************************)
(* C12.  Remove of an id leaves the timeline without the entry of that id  *)
(* and with every other entry, its fields and the order of the rest        *)
(* unchanged; for an id no entry has, it leaves the timeline as it was.    *)
(***************************************************************************)
C12_RemoveExactlyThatEntry ==
    \A id \in 0 .. MaxCounter :
        RunOf(Event("remove", id, 0)).timeline = Without(timeline, id)

(***************************************************************************)
(* C13.  An add (a search result's Add button, or a file put into the      *)
(* empty uploader) appends exactly one entry, with id the counter's value, *)
(* advances the counter by one and leaves the entries before it as they    *)
(* were; a new image has duration 3 s, a new video start 0 and no end.     *)
(***************************************************************************)
AppendsOne(r, type) ==
    /\ ~r.error
    /\ r.counter = counter + 1
    /\ Len(r.timeline) = Len(timeline) + 1
    /\ SubSeq(r.timeline, 1, Len(timeline)) = timeline
    /\ LET new == r.timeline[Len(r.timeline)]
       IN /\ new.id = counter
          /\ new.type = type
          /\ type = "image" => new.duration = DefaultDuration
          /\ type = "video" => new.start = 0 /\ new.end = None

C13_AddAppendsOne ==
    /\ \A type \in Kinds, n \in NaturalDurations :
          AppendsOne(RunOf(Event("add", IF type = "image" THEN 0 ELSE 1, n)), type)
    /\ uploaded = << >> =>
          \A f \in UploadedFiles :
              AppendsOne(Script(Session, NoEvent, << f >>), f.type)

\* The same three statements, in the states whose uploader holds no file.
StoreOpsWithEmptyUploader ==
    uploaded = << >> =>
        /\ C11_MoveSwapsAdjacent
        /\ C12_RemoveExactlyThatEntry
        /\ C13_AddAppendsOne

(***************************************************************************)
(* C14.  A render that fails while encoding leaves no file it has written  *)
(* at the output location.                                                 *)
(***************************************************************************)
C14_FailedEncodeLeavesNoFile ==
    [][\A i \in Slots :
          (renders[i].pc = "encoding" /\ renders'[i].pc \in {"failed", "stopped"})
          => outFile'.state = "absent"]_vars

(***************************************************************************)
(* C15.  A render is cancellable at every segment boundary.  The one       *)
(* request to stop a run the program knows is Streamlit's (a later script  *)
(* run of the session, or the Stop button): a composing run that has been  *)
(* asked to stop composes no further segment; its next step ends it as     *)
(* failed with the reason "Cancelled" and produces no output file.         *)
(***************************************************************************)
C15_CancelledAtSegmentBoundary ==
    [][\A i \in Slots :
          (renders[i].pc = "composing" /\ ~renders[i].live)
          => \/ renders'[i] = renders[i]
             \/ /\ renders'[i].pc = "failed"
                /\ "Cancelled" \in renders'[i].msgs
                /\ outFile' = outFile]_vars

(***************************************************************************)
(* C16.  A render goes through composing, encoding and done in that order: *)
(* encoding starts only from composing with every entry of the timeline    *)
(* composed, done is reached only after encoding has written the file, and *)
(* a run that leaves the render block ends in done or in failed.           *)
(***************************************************************************)
C16_RenderStateOrder ==
    [][\A i \in Slots :
          /\ (renders'[i].pc = "encoding" /\ renders[i].pc # "encoding")
             => /\ renders[i].pc = "composing"
                /\ Len(renders[i].clips) >= Len(timeline)
          /\ (renders'[i].pc = "done" /\ renders[i].pc # "done")
             => renders[i].pc = "reported"
          /\ (renders'[i].pc = "reported" /\ renders[i].pc # "reported")
             => renders[i].pc = "written"
          /\ (renders[i].pc \in Active /\ renders'[i].pc \notin Active)
             => renders'[i].pc \in {"done", "failed"}]_vars

(***************************************************************************)
(* C17.  At no point of a render are the sources of two segments open at   *)
(* once, and none is open once the render has ended.  A video's source is  *)
(* open from VideoFileClip (line 213) for as long as its clip is in the    *)
(* list "clips"; an image is read into memory and its file closed.         *)
(***************************************************************************)
OpenSources(i) ==
    {k \in 1 .. Len(renders[i].clips) :
        /\ renders[i].clips[k].id \in Ids(timeline)
        /\ ItemById(timeline, renders[i].clips[k].id).type = "video"}

C17_OneSourceOpenAtATime ==
    \A i \in Slots :
        /\ Cardinality(OpenSources(i)) <= 1
        /\ renders[i].pc \in Ended => renders[i].clips = << >>

(***************************************************************************)
(* C18.  Each uploaded file yields one entry: a step that changes the      *)
(* uploader's files adds at most one entry per file it then holds, and a   *)
(* step that neither changes them nor is an Add click of a search result   *)
(* adds no entry.                                                          *)
(***************************************************************************)
C18_UploadYieldsOneEntry ==
    [][/\ uploaded' # uploaded
          => Len(timeline') <= Len(timeline) + Len(uploaded')
       /\ (/\ uploaded' = uploaded
           /\ ~ \E type \in Kinds, n \in NaturalDurations : AddFromSearch(type, n))
          => Len(timeline') <= Len(timeline)]_vars

(***************************************************************************)
(* C19.  The pass of the timeline loop a Move Up or Move Down click causes *)
(* visits every entry exactly once: it runs to its end, and every entry of *)
(* the timeline is met once, none twice and none never.                    *)
(***************************************************************************)
PassOf(ev) ==
    TimelineLoop(UploadSection(Session, uploaded).timeline, 1, ev, << >>, 0)

VisitsEachOnce(p) ==
    /\ ~p.error
    /\ \A id \in Ids(p.timeline) :
          Cardinality({k \in 1 .. Len(p.visits) : p.visits[k] = id}) = 1

C19_LoopVisitsEachEntryOnce ==
    [][\A id \in Ids(timeline) :
          /\ MoveUp(id) => VisitsEachOnce(PassOf(Event("moveup", id, 0)))
          /\ MoveDown(id) => VisitsEachOnce(PassOf(Event("movedown", id, 0)))]_vars

(***************************************************************************)
(* C20.  No run reports both "Export complete" and "Rendering failed".     *)
(***************************************************************************)
C20_OneOutcomePerRender ==
    \A i \in Slots :
        ~ ({"Export complete", "Rendering failed"} \subseteq renders[i].msgs)

====
